---- MODULE Spec2Model ----
(***************************************************************************)
(* Model of google_sheets_store.py (optional Google Sheets persistence of  *)
(* the reservation tables) and of scripts/sync_sheets_datasets.py (the     *)
(* bulk sync).                                                             *)
(*                                                                         *)
(* A worksheet is a grid of string cells.  The grid is kept as a sequence  *)
(* of rows, every row with its trailing empty cells removed and the grid   *)
(* with its trailing empty rows removed: an absent cell is the empty       *)
(* string, which is what the remote service reports for it.  Cell values   *)
(* are stored as written.                                                  *)
(*                                                                         *)
(* Python values are strings; None, True and False are the tokens NoneV,   *)
(* TrueV and FalseV, and a name that is not set is Absent.  A dict is the  *)
(* sequence of its <<key, value>> items in insertion order.                *)
(***************************************************************************)
EXTENDS Integers, Sequences, FiniteSets, TLC

VARIABLES
    cfg,      \* the process configuration: environment, secrets, libraries
    sheets,   \* the remote spreadsheet: worksheet title -> [exists, cells]
    last,     \* the last operation: its arguments, its result, its remote calls
    writers   \* the operations in progress when two callers share the worksheet

vars == <<cfg, sheets, last, writers>>

----------------------------------------------------------------------------
(* Values *)

NoneV  == "<None>"
TrueV  == "<True>"
FalseV == "<False>"
Absent == "<absent>"

SHEET_RESERVAS_WEB  == "reservas_web_2026"
SHEET_RESERVAS_HIST == "reservas_2026_full"

ID_RESERVA == "ID_RESERVA"
NAME       == "NAME"

Max(a, b) == IF a >= b THEN a ELSE b
Min(a, b) == IF a <= b THEN a ELSE b

\* str(v)
Str(v) ==
    CASE v = NoneV  -> "None"
      [] v = TrueV  -> "True"
      [] v = FalseV -> "False"
      [] OTHER      -> v

\* s.strip(), on the strings of the model that carry white space
Strip(s) ==
    CASE s = " "     -> ""
      [] s = " A1 "  -> "A1"
      [] s = "TRUE " -> "TRUE"
      [] s = " on"   -> "on"
      [] OTHER       -> s

\* s.lower(), on the strings of the model that carry capitals
Lower(s) ==
    CASE s = "TRUE" -> "true"
      [] s = "Yes"  -> "yes"
      [] OTHER      -> s

\* an empty and a non-empty dict (a service account document)
EmptyDict == "<{}>"
DictV     == "<dict>"

\* the truth value of a Python object (not x is its negation)
Truthy(v) == v \notin {NoneV, FalseV, Absent, EmptyDict, ""}

----------------------------------------------------------------------------
(* Sequences and dicts *)

RECURSIVE Trim(_)
\* a row as the remote service reports it: trailing empty cells removed
Trim(row) ==
    IF row = <<>> THEN <<>>
    ELSE IF row[Len(row)] = "" THEN Trim(SubSeq(row, 1, Len(row) - 1))
    ELSE row

RECURSIVE TrimGrid(_)
\* a grid as the remote service reports it: trailing empty rows removed
TrimGrid(g) ==
    IF g = <<>> THEN <<>>
    ELSE IF g[Len(g)] = <<>> THEN TrimGrid(SubSeq(g, 1, Len(g) - 1))
    ELSE g

Cell(row, j) == IF j >= 1 /\ j <= Len(row) THEN row[j] ELSE ""

\* list.index(x) + 1: the 1-based position of the first x, 0 when there is none
IndexOf(seq, x) ==
    IF \E i \in 1..Len(seq) : seq[i] = x
    THEN CHOOSE i \in 1..Len(seq) : seq[i] = x /\ \A k \in 1..(i - 1) : seq[k] # x
    ELSE 0

InSeq(seq, x) == \E i \in 1..Len(seq) : seq[i] = x

\* dict.keys()
Keys(d) == [i \in 1..Len(d) |-> d[i][1]]

\* dict.get(k, default)
Get(d, k, default) ==
    IF \E i \in 1..Len(d) : d[i][1] = k
    THEN d[CHOOSE i \in 1..Len(d) : d[i][1] = k][2]
    ELSE default

----------------------------------------------------------------------------
(* The remote worksheet (gspread.Worksheet), as the module uses it *)

NoSheet == [exists |-> FALSE, cells |-> <<>>]

\* ws.row_values(i)
RowValues(g, i) == IF i >= 1 /\ i <= Len(g) THEN g[i] ELSE <<>>

\* ws.col_values(j)
ColValues(g, j) == Trim([i \in 1..Len(g) |-> Cell(g[i], j)])

RECURSIVE Width(_)
\* the number of columns of the used range
Width(g) == IF g = <<>> THEN 0 ELSE Max(Len(g[1]), Width(Tail(g)))

\* ws.get_all_values(): the used range, every row padded to its width
GetAllValues(g) == [i \in 1..Len(g) |-> [j \in 1..Width(g) |-> Cell(g[i], j)]]

\* ws.update("A<i>", [values]): the cells of row i from column A, as many as
\* there are values; the cells to the right of them are not part of the range
UpdateRange(g, i, values) ==
    LET old == RowValues(g, i)
        new == Trim([j \in 1..Max(Len(values), Len(old)) |->
                        IF j <= Len(values) THEN values[j] ELSE old[j]])
    IN  TrimGrid([k \in 1..Max(Len(g), i) |-> IF k = i THEN new ELSE RowValues(g, k)])

\* AppendRows putting the rows right below the header row
AppendRowsAtTop(g, rows) ==
    TrimGrid(SubSeq(g, 1, Min(1, Len(g)))
             \o [k \in 1..Len(rows) |-> Trim(rows[k])]
             \o SubSeq(g, 2, Len(g)))

\* ws.append_rows(rows): the rows go below the last row that holds a value
AppendRows(g, rows) == TrimGrid(g \o [k \in 1..Len(rows) |-> Trim(rows[k])])

\* ws.clear() left out
ClearNothing(g) == g

\* ws.clear()
Clear(g) == <<>>

----------------------------------------------------------------------------
(* Configuration *)

USE_GOOGLE_SHEETS            == "USE_GOOGLE_SHEETS"
GOOGLE_SHEETS_SPREADSHEET_ID == "GOOGLE_SHEETS_SPREADSHEET_ID"
GOOGLE_SERVICE_ACCOUNT_JSON  == "GOOGLE_SERVICE_ACCOUNT_JSON"
gcp_service_account          == "gcp_service_account"

\* name.lower(), on the names of the configuration
LowerName(name) ==
    CASE name = USE_GOOGLE_SHEETS            -> "use_google_sheets"
      [] name = GOOGLE_SHEETS_SPREADSHEET_ID -> "google_sheets_spreadsheet_id"
      [] name = GOOGLE_SERVICE_ACCOUNT_JSON  -> "google_service_account_json"
      [] OTHER                               -> name

\* c.st: streamlit was imported; c.secretsOk: reading st.secrets does not raise;
\* c.env, c.secrets: name -> value or Absent; c.gspread: gspread was imported
SecretGet(c, name, default) ==
    IF c.env[name] # Absent THEN c.env[name]
    ELSE IF ~c.st THEN default
    ELSE IF ~c.secretsOk THEN default
    ELSE IF c.secrets[name] # Absent THEN c.secrets[name]
    ELSE IF c.secrets[LowerName(name)] # Absent THEN c.secrets[LowerName(name)]
    ELSE default

ToBool(value) ==
    IF value \in {TrueV, FalseV} THEN value = TrueV
    ELSE IF value = NoneV THEN FALSE
    ELSE Lower(Strip(Str(value))) \in {"1", "true", "yes", "y", "on"}

\* sheets_enabled with the default turned on
SheetsEnabledDefaultOn(c) == ToBool(SecretGet(c, USE_GOOGLE_SHEETS, TrueV))

SheetsEnabled(c) == ToBool(SecretGet(c, USE_GOOGLE_SHEETS, FalseV))

\* json.loads(raw): the parsed document, or ParseError when it raises
ParseError == "<ValueError>"
JSON_EMPTY   == "{}"
JSON_ACCOUNT == "{type: service_account, ...}"
JsonLoads(raw) ==
    CASE raw = JSON_EMPTY   -> EmptyDict
      [] raw = JSON_ACCOUNT -> DictV
      [] OTHER              -> ParseError

\* _service_account_info handing on the text it could not parse
ServiceAccountInfoRaw(c) ==
    IF c.st /\ c.secretsOk /\ c.secrets[gcp_service_account] # Absent
    THEN c.secrets[gcp_service_account]
    ELSE LET raw == SecretGet(c, GOOGLE_SERVICE_ACCOUNT_JSON, NoneV)
         IN  IF Truthy(raw)
             THEN IF JsonLoads(raw) = ParseError THEN raw ELSE JsonLoads(raw)
             ELSE NoneV

ServiceAccountInfo(c) ==
    IF c.st /\ c.secretsOk /\ c.secrets[gcp_service_account] # Absent
    THEN c.secrets[gcp_service_account]
    ELSE LET raw == SecretGet(c, GOOGLE_SERVICE_ACCOUNT_JSON, NoneV)
         IN  IF Truthy(raw)
             THEN IF JsonLoads(raw) = ParseError THEN NoneV ELSE JsonLoads(raw)
             ELSE NoneV

----------------------------------------------------------------------------
(* One operation's run: the worksheet as it stands, the remote calls made so *)
(* far, the batches of rows handed to append_rows, and whether a call has    *)
(* raised.  fail is the number of the remote call that the transport fails   *)
(* (0: none).                                                                *)

Start(ws) == [ws |-> ws, calls |-> <<>>, sent |-> <<>>, raised |-> FALSE]

\* the next remote call: it raises when it is call number fail, otherwise it
\* leaves the worksheet with the cells given; after a raise nothing more runs
Remote(s, kind, cells, fail) ==
    IF s.raised THEN s
    ELSE IF Len(s.calls) + 1 = fail
         THEN [s EXCEPT !.calls = Append(@, kind), !.raised = TRUE]
         ELSE [s EXCEPT !.calls = Append(@, kind), !.ws.cells = cells]

\* no handle is returned: the four checks of _open_spreadsheet
Unavailable(c) ==
    \/ ~SheetsEnabled(c)
    \/ ~c.gspread
    \/ ~Truthy(SecretGet(c, GOOGLE_SHEETS_SPREADSHEET_ID, NoneV))
    \/ ~Truthy(ServiceAccountInfo(c))

OpenSpreadsheet(s, c, fail) ==
    IF Unavailable(c) THEN s
    ELSE LET s1 == Remote(s, "from_service_account_info", s.ws.cells, fail)
             s2 == Remote(s1, "authorize", s1.ws.cells, fail)
         IN  Remote(s2, "open_by_key", s2.ws.cells, fail)

\* spreadsheet.add_worksheet(title): the service rejects a title that exists
AddWorksheet(s, fail) ==
    IF s.raised THEN s
    ELSE IF Len(s.calls) + 1 = fail \/ s.ws.exists
         THEN [s EXCEPT !.calls = Append(@, "add_worksheet"), !.raised = TRUE]
         ELSE [s EXCEPT !.calls = Append(@, "add_worksheet"),
                        !.ws = [exists |-> TRUE, cells |-> <<>>]]

\* _ensure_worksheet without the test of the first row
EnsureWorksheetAlwaysWrite(s, headers, fail) ==
    LET missing == ~s.raised /\ (Len(s.calls) + 1 = fail \/ ~s.ws.exists)
        s1 == IF s.raised THEN s ELSE [s EXCEPT !.calls = Append(@, "worksheet")]
        s2 == IF missing THEN AddWorksheet(s1, fail) ELSE s1
    IN  IF headers # <<>>
        THEN LET s3 == Remote(s2, "row_values", s2.ws.cells, fail)
             IN  Remote(s3, "update", UpdateRange(s3.ws.cells, 1, headers), fail)
        ELSE s2

\* _ensure_worksheet reading the first row before it tests headers
EnsureWorksheetReadFirst(s, headers, fail) ==
    LET missing == ~s.raised /\ (Len(s.calls) + 1 = fail \/ ~s.ws.exists)
        s1 == IF s.raised THEN s ELSE [s EXCEPT !.calls = Append(@, "worksheet")]
        s2 == IF missing THEN AddWorksheet(s1, fail) ELSE s1
        s3 == Remote(s2, "row_values", s2.ws.cells, fail)
    IN  IF headers # <<>> /\ RowValues(s3.ws.cells, 1) = <<>>
        THEN Remote(s3, "update", UpdateRange(s3.ws.cells, 1, headers), fail)
        ELSE s3

\* headers is the list given, <<>> for None
EnsureWorksheet(s, headers, fail) ==
    LET missing == ~s.raised /\ (Len(s.calls) + 1 = fail \/ ~s.ws.exists)
        s1 == IF s.raised THEN s ELSE [s EXCEPT !.calls = Append(@, "worksheet")]
        s2 == IF missing THEN AddWorksheet(s1, fail) ELSE s1
    IN  IF headers # <<>>
        THEN LET s3    == Remote(s2, "row_values", s2.ws.cells, fail)
                 first == RowValues(s3.ws.cells, 1)
             IN  IF first = <<>>
                 THEN Remote(s3, "update", UpdateRange(s3.ws.cells, 1, headers), fail)
                 ELSE s3
        ELSE s2

\* an optional list argument
NoHeaders      == [given |-> FALSE, list |-> <<>>]
Headers(list)  == [given |-> TRUE, list |-> list]

\* what an operation leaves: the worksheet, its calls, and what it returns
\* ("raise" when a remote call raised)
Result(s, ret, out) ==
    [ws |-> s.ws, calls |-> s.calls, sent |-> s.sent,
     ret |-> IF s.raised THEN "raise" ELSE ret,
     out |-> IF s.raised THEN <<>> ELSE out]

----------------------------------------------------------------------------
(* upsert_sheet_row *)

\* FindRow comparing the stored cell as it is: v == key_value
FindRowNoStrip(column, key) ==
    IF \E i \in 2..Len(column) : Str(column[i]) = key
    THEN CHOOSE i \in 2..Len(column) :
            /\ Str(column[i]) = key
            /\ \A k \in 2..(i - 1) : Str(column[k]) # key
    ELSE 0

\* FindRow with the row index starting at the first data row instead of None
FindRowDefaultFirst(column, key) ==
    IF \E i \in 2..Len(column) : Strip(Str(column[i])) = key
    THEN CHOOSE i \in 2..Len(column) :
            /\ Strip(Str(column[i])) = key
            /\ \A k \in 2..(i - 1) : Strip(Str(column[k])) # key
    ELSE 2

\* FindRow skipping the first data row: enumerate(existing[2:], start=3)
FindRowSkipFirst(column, key) ==
    IF \E i \in 3..Len(column) : Strip(Str(column[i])) = key
    THEN CHOOSE i \in 3..Len(column) :
            /\ Strip(Str(column[i])) = key
            /\ \A k \in 3..(i - 1) : Strip(Str(column[k])) # key
    ELSE 0

\* FindRow scanning from the header row: enumerate(existing, start=1)
FindRowFromHeader(column, key) ==
    IF \E i \in 1..Len(column) : Strip(Str(column[i])) = key
    THEN CHOOSE i \in 1..Len(column) :
            /\ Strip(Str(column[i])) = key
            /\ \A k \in 1..(i - 1) : Strip(Str(column[k])) # key
    ELSE 0

\* FindRow without the break: the last data row whose cell is the key
FindRowLast(column, key) ==
    IF \E i \in 2..Len(column) : Strip(Str(column[i])) = key
    THEN CHOOSE i \in 2..Len(column) :
            /\ Strip(Str(column[i])) = key
            /\ \A k \in (i + 1)..Len(column) : Strip(Str(column[k])) # key
    ELSE 0

\* the first data row (2..) whose cell, stripped, is the key; 0 when none
FindRow(column, key) ==
    IF \E i \in 2..Len(column) : Strip(Str(column[i])) = key
    THEN CHOOSE i \in 2..Len(column) :
            /\ Strip(Str(column[i])) = key
            /\ \A k \in 2..(i - 1) : Strip(Str(column[k])) # key
    ELSE 0

\* [str(row.get(c, "")) for c in headers]
OutRow(row, headers) == [j \in 1..Len(headers) |-> Str(Get(row, headers[j], ""))]

\* upsert_sheet_row without the test of the key value
UpsertSheetRowAnyKey(ws, c, row, key_col, hdr, fail) ==
    LET s0 == OpenSpreadsheet(Start(ws), c, fail)
    IN  IF Unavailable(c) THEN Result(s0, FalseV, <<>>)
        ELSE
        LET headers     == IF hdr.given THEN hdr.list ELSE Keys(row)
            s1          == EnsureWorksheet(s0, headers, fail)
            key_value   == Strip(Str(Get(row, key_col, "")))
            key_col_idx == IndexOf(headers, key_col)
        IN  IF key_col_idx = 0 THEN Result(s1, FalseV, <<>>)
            ELSE
            LET s2       == Remote(s1, "col_values", s1.ws.cells, fail)
                existing == ColValues(s2.ws.cells, key_col_idx)
                row_idx  == FindRow(existing, key_value)
                out_row  == OutRow(row, headers)
                s3       == IF row_idx = 0
                            THEN Remote(s2, "append_row",
                                        AppendRows(s2.ws.cells, <<out_row>>), fail)
                            ELSE Remote(s2, "update",
                                        UpdateRange(s2.ws.cells, row_idx, out_row), fail)
            IN  Result(s3, TrueV, <<>>)

UpsertSheetRow(ws, c, row, key_col, hdr, fail) ==
    LET s0 == OpenSpreadsheet(Start(ws), c, fail)
    IN  IF Unavailable(c) THEN Result(s0, FalseV, <<>>)
        ELSE
        LET headers     == IF hdr.given THEN hdr.list ELSE Keys(row)
            s1          == EnsureWorksheet(s0, headers, fail)
            key_value   == Strip(Str(Get(row, key_col, "")))
            key_col_idx == IndexOf(headers, key_col)
        IN  IF key_value = "" THEN Result(s1, FalseV, <<>>)
            ELSE IF key_col_idx = 0 THEN Result(s1, FalseV, <<>>)
            ELSE
            LET s2       == Remote(s1, "col_values", s1.ws.cells, fail)
                existing == ColValues(s2.ws.cells, key_col_idx)
                row_idx  == FindRow(existing, key_value)
                out_row  == OutRow(row, headers)
                s3       == IF row_idx = 0
                            THEN Remote(s2, "append_row",
                                        AppendRows(s2.ws.cells, <<out_row>>), fail)
                            ELSE Remote(s2, "update",
                                        UpdateRange(s2.ws.cells, row_idx, out_row), fail)
            IN  Result(s3, TrueV, <<>>)

----------------------------------------------------------------------------
(* update_sheet_fields_by_id *)

RECURSIVE ApplyUpdates(_, _, _)
\* for k, v in updates.items(): if k in headers: current[headers.index(k)] = ...
ApplyUpdates(current, headers, updates) ==
    IF updates = <<>> THEN current
    ELSE LET k    == Head(updates)[1]
             v    == Head(updates)[2]
             next == IF InSeq(headers, k)
                     THEN [current EXCEPT ![IndexOf(headers, k)] =
                                              IF v = NoneV THEN "" ELSE Str(v)]
                     ELSE current
         IN  ApplyUpdates(next, headers, Tail(updates))

\* Pad starting from an empty row: [""] * len(headers)
PadBlank(current, n) == [j \in 1..n |-> ""]

\* current + [""] * (len(headers) - len(current))
Pad(current, n) ==
    IF Len(current) < n
    THEN [j \in 1..n |-> IF j <= Len(current) THEN current[j] ELSE ""]
    ELSE current

UpdateSheetFieldsById(ws, c, id_value, updates, key_col, fail) ==
    IF updates = <<>> THEN Result(Start(ws), FalseV, <<>>)
    ELSE
    LET s0 == OpenSpreadsheet(Start(ws), c, fail)
    IN  IF Unavailable(c) THEN Result(s0, FalseV, <<>>)
        ELSE
        LET s1      == EnsureWorksheet(s0, <<>>, fail)
            s2      == Remote(s1, "row_values", s1.ws.cells, fail)
            headers == RowValues(s2.ws.cells, 1)
        IN  IF headers = <<>> \/ ~InSeq(headers, key_col) THEN Result(s2, FalseV, <<>>)
            ELSE
            LET id_idx     == IndexOf(headers, key_col)
                s3         == Remote(s2, "col_values", s2.ws.cells, fail)
                rows       == ColValues(s3.ws.cells, id_idx)
                target_row == FindRow(rows, Strip(Str(id_value)))
            IN  IF target_row = 0 THEN Result(s3, FalseV, <<>>)
                ELSE
                LET s4      == Remote(s3, "row_values", s3.ws.cells, fail)
                    current == ApplyUpdates(
                                   Pad(RowValues(s4.ws.cells, target_row), Len(headers)),
                                   headers, updates)
                    s5      == Remote(s4, "update",
                                      UpdateRange(s4.ws.cells, target_row, current), fail)
                IN  Result(s5, TrueV, <<>>)

----------------------------------------------------------------------------
(* Tables (pandas.DataFrame): [columns, rows], every row as long as columns *)

DataFrame(columns, rows) == [columns |-> columns, rows |-> rows]

\* the positions of the columns named c
Positions(columns, c) == {i \in 1..Len(columns) : columns[i] = c}

RECURSIVE SeqOfSet(_)
\* the members of a set of numbers, ascending
SeqOfSet(S) ==
    IF S = {} THEN <<>>
    ELSE LET m == CHOOSE x \in S : \A y \in S : x <= y
         IN  <<m>> \o SeqOfSet(S \ {m})

RECURSIVE Selection(_, _)
\* out[cols]: for each name of cols, in order, <<name, position>> of every column
\* of that name, or <<name, 0>> for the column of empty strings that
\* _normalize_df adds for a name the table lacks
Selection(columns, cols) ==
    IF cols = <<>> THEN <<>>
    ELSE LET c   == Head(cols)
             pos == SeqOfSet(Positions(columns, c))
         IN  (IF pos = <<>> THEN << <<c, 0>> >>
              ELSE [k \in 1..Len(pos) |-> <<c, pos[k]>>])
             \o Selection(columns, Tail(cols))

\* _normalize_df returning out instead of out[cols]: the columns of the table,
\* and after them the columns it lacks
NormalizeDfNoSelect(df, hdr) ==
    IF ~hdr.given THEN df
    ELSE LET lacking == SelectSeq(hdr.list, LAMBDA c : ~InSeq(df.columns, c))
         IN  DataFrame(df.columns \o lacking,
                       [i \in 1..Len(df.rows) |->
                            df.rows[i] \o [j \in 1..Len(lacking) |-> ""]])

NormalizeDf(df, hdr) ==
    IF ~hdr.given THEN df
    ELSE LET sel == Selection(df.columns, hdr.list)
         IN  DataFrame([j \in 1..Len(sel) |-> sel[j][1]],
                       [i \in 1..Len(df.rows) |->
                            [j \in 1..Len(sel) |->
                                IF sel[j][2] = 0 THEN "" ELSE df.rows[i][sel[j][2]]]])

----------------------------------------------------------------------------
(* read_sheet_df *)

ReadSheetDf(ws, c, hdr, fail) ==
    LET s0 == OpenSpreadsheet(Start(ws), c, fail)
    IN  IF Unavailable(c) THEN Result(s0, "df", DataFrame(hdr.list, <<>>))
        ELSE
        LET s1     == EnsureWorksheet(s0, hdr.list, fail)
            s2     == Remote(s1, "get_all_values", s1.ws.cells, fail)
            values == GetAllValues(s2.ws.cells)
        IN  IF values = <<>> THEN Result(s2, "df", DataFrame(hdr.list, <<>>))
            ELSE
            LET raw_headers == values[1]
                rows        == Tail(values)
            IN  IF rows = <<>>
                THEN Result(s2, "df",
                            DataFrame(IF hdr.list # <<>> THEN hdr.list ELSE raw_headers,
                                      <<>>))
                ELSE Result(s2, "df", NormalizeDf(DataFrame(raw_headers, rows), hdr))

----------------------------------------------------------------------------
(* write_sheet_df *)

chunk == 500

\* target.fillna("").astype(str)
StrCell(v) == IF v = NoneV THEN "" ELSE Str(v)

RECURSIVE AppendChunksToo(_, _, _)
\* AppendChunks with the range one too long: range(0, len(rows) + 1, chunk)
AppendChunksToo(s, rows, fail) ==
    LET n     == Min(chunk, Len(rows))
        batch == SubSeq(rows, 1, n)
        s1    == Remote(s, "append_rows", AppendRows(s.ws.cells, batch), fail)
        s2    == IF s.raised THEN s1 ELSE [s1 EXCEPT !.sent = Append(@, batch)]
    IN  IF Len(rows) < chunk THEN s2
        ELSE AppendChunksToo(s2, SubSeq(rows, n + 1, Len(rows)), fail)

RECURSIVE AppendChunks(_, _, _)
\* for i in range(0, len(rows), chunk): ws.append_rows(rows[i : i + chunk])
AppendChunks(s, rows, fail) ==
    IF rows = <<>> THEN s
    ELSE LET n     == Min(chunk, Len(rows))
             batch == SubSeq(rows, 1, n)
             s1    == Remote(s, "append_rows", AppendRows(s.ws.cells, batch), fail)
         IN  AppendChunks(IF s.raised THEN s1 ELSE [s1 EXCEPT !.sent = Append(@, batch)],
                          SubSeq(rows, n + 1, Len(rows)), fail)

\* write_sheet_df writing the header row before it clears the worksheet
WriteSheetDfHeaderFirst(ws, c, df, hdr, fail) ==
    LET s0 == OpenSpreadsheet(Start(ws), c, fail)
    IN  IF Unavailable(c) THEN Result(s0, FalseV, <<>>)
        ELSE
        LET target  == NormalizeDf(df, hdr)
            headers == IF hdr.given THEN hdr.list ELSE target.columns
            s1      == EnsureWorksheet(s0, headers, fail)
            s2      == Remote(s1, "update", UpdateRange(s1.ws.cells, 1, headers), fail)
            s3      == Remote(s2, "clear", Clear(s2.ws.cells), fail)
        IN  IF target.rows = <<>> \/ target.columns = <<>> THEN Result(s3, TrueV, <<>>)
            ELSE
            LET rows == [i \in 1..Len(target.rows) |->
                            [j \in 1..Len(target.columns) |-> StrCell(target.rows[i][j])]]
            IN  Result(AppendChunks(s3, rows, fail), TrueV, <<>>)

WriteSheetDf(ws, c, df, hdr, fail) ==
    LET s0 == OpenSpreadsheet(Start(ws), c, fail)
    IN  IF Unavailable(c) THEN Result(s0, FalseV, <<>>)
        ELSE
        LET target  == NormalizeDf(df, hdr)
            headers == IF hdr.given THEN hdr.list ELSE target.columns
            s1      == EnsureWorksheet(s0, headers, fail)
            s2      == Remote(s1, "clear", Clear(s1.ws.cells), fail)
            s3      == Remote(s2, "update", UpdateRange(s2.ws.cells, 1, headers), fail)
        IN  IF target.rows = <<>> \/ target.columns = <<>> THEN Result(s3, TrueV, <<>>)
            ELSE
            LET rows == [i \in 1..Len(target.rows) |->
                            [j \in 1..Len(target.columns) |-> StrCell(target.rows[i][j])]]
            IN  Result(AppendChunks(s3, rows, fail), TrueV, <<>>)

----------------------------------------------------------------------------
(* scripts/sync_sheets_datasets.py: main.  What it leaves: both worksheets,  *)
(* the remote calls (n1 of them made by the first write), what each write    *)
(* returned ("raise" when it raised, "not run" when main ended before it),   *)
(* and the exit status of the process: what main returns, or 1 when an       *)
(* exception that nothing catches ends the interpreter.                      *)

MainResult(hist, web, calls, n1, ok_hist, ok_web, status) ==
    [hist |-> hist, web |-> web, calls |-> calls, n1 |-> n1,
     out |-> <<ok_hist, ok_web>>, ret |-> status]

Main(shs, c, hist_exists, web_exists, df_hist, df_web, fail, fail2) ==
    LET hist == shs[SHEET_RESERVAS_HIST]
        web  == shs[SHEET_RESERVAS_WEB]
    IN  IF ~SheetsEnabled(c)
        THEN MainResult(hist, web, <<>>, 0, "not run", "not run", "1")
        ELSE IF ~hist_exists \/ ~web_exists
        THEN MainResult(hist, web, <<>>, 0, "not run", "not run", "1")
        ELSE
        LET ok_hist == WriteSheetDf(hist, c, df_hist, Headers(df_hist.columns), fail)
            n1      == Len(ok_hist.calls)
        IN  IF ok_hist.ret = "raise"
            THEN MainResult(ok_hist.ws, web, ok_hist.calls, n1, "raise", "not run", "1")
            ELSE
            LET ok_web == WriteSheetDf(web, c, df_web, Headers(df_web.columns), fail2)
                calls  == ok_hist.calls \o ok_web.calls
            IN  IF ok_web.ret = "raise"
                THEN MainResult(ok_hist.ws, ok_web.ws, calls, n1, ok_hist.ret, "raise", "1")
                ELSE IF ok_hist.ret = TrueV /\ ok_web.ret = TrueV
                THEN MainResult(ok_hist.ws, ok_web.ws, calls, n1, TrueV, TrueV, "0")
                ELSE MainResult(ok_hist.ws, ok_web.ws, calls, n1,
                                ok_hist.ret, ok_web.ret, "2")

----------------------------------------------------------------------------
(* Bounds and inputs *)

\* the most rows (header row included) a worksheet of the model holds
MaxRows == 3

ConfigNames == {USE_GOOGLE_SHEETS, GOOGLE_SHEETS_SPREADSHEET_ID,
                GOOGLE_SERVICE_ACCOUNT_JSON}
SecretNames == ConfigNames \cup {LowerName(n) : n \in ConfigNames}
                           \cup {gcp_service_account}

\* a complete configuration given in the environment
CfgOk ==
    [st |-> FALSE, secretsOk |-> FALSE, gspread |-> TRUE,
     env |-> [n \in ConfigNames |->
                CASE n = USE_GOOGLE_SHEETS            -> "true"
                  [] n = GOOGLE_SHEETS_SPREADSHEET_ID -> "sheet-id"
                  [] OTHER                            -> JSON_ACCOUNT],
     secrets |-> [n \in SecretNames |-> Absent]]

RowA == << <<ID_RESERVA, "A1">>, <<NAME, "Jo">> >>
RowB == << <<ID_RESERVA, " A1 ">>, <<NAME, "Ana">> >>
RowC == << <<ID_RESERVA, "A2">> >>
RowD == << <<ID_RESERVA, " ">>, <<NAME, "Jo">> >>
RowE == << <<NAME, "Jo">> >>
RowN == << <<ID_RESERVA, NoneV>> >>
RowH == << <<ID_RESERVA, ID_RESERVA>> >>

\* the upsert calls: <<record, headers>>
UpsertCalls ==
    { <<RowA, NoHeaders>>,
      <<RowB, Headers(<<ID_RESERVA, NAME>>)>>,
      <<RowC, NoHeaders>>,
      <<RowC, Headers(<<ID_RESERVA, NAME>>)>>,
      <<RowA, Headers(<<NAME, ID_RESERVA>>)>>,
      <<RowD, Headers(<<ID_RESERVA, NAME>>)>>,
      <<RowE, NoHeaders>>,
      <<RowA, Headers(<<NAME, "EXTRA">>)>>,
      <<RowN, NoHeaders>>,
      <<RowH, NoHeaders>> }

\* the updateFields calls: <<id_value, updates>>
UpdateCalls ==
    { <<" A1 ", << <<NAME, "Anna">> >> >>,
      <<"A2",   << <<NAME, NoneV>> >> >>,
      <<"A2",   << <<"EXTRA", "x">>, <<NAME, "Jo">> >> >>,
      <<"Z9",   << <<NAME, "X">> >> >>,
      <<"A1",   <<>> >> }

TableEmpty == DataFrame(<<ID_RESERVA, NAME>>, <<>>)
TableDup   == DataFrame(<<ID_RESERVA, NAME>>, << <<"A1", "Jo">>, <<"A1", "Ana">> >>)
TableNone  == DataFrame(<<ID_RESERVA, NAME>>, << <<"A2", NoneV>> >>)

\* the writeTable calls: <<table, headers>>
WriteCalls ==
    { <<TableEmpty, NoHeaders>>,
      <<TableDup, NoHeaders>>,
      <<TableNone, Headers(<<ID_RESERVA, NAME>>)>>,
      <<TableDup, Headers(<<NAME, "EXTRA">>)>> }

\* the header lists readTable and ensure are called with
HeaderLists ==
    { NoHeaders, Headers(<<ID_RESERVA, NAME>>), Headers(<<NAME, "EXTRA">>) }

Titles == {SHEET_RESERVAS_WEB, SHEET_RESERVAS_HIST}

----------------------------------------------------------------------------
(* State *)

\* no operation has run
NoOp ==
    [op |-> "none", title |-> "", row |-> <<>>, headers |-> NoHeaders,
     id_value |-> "", updates |-> <<>>, df |-> DataFrame(<<>>, <<>>),
     files |-> <<>>, fail |-> 0, fail2 |-> 0, ret |-> "", out |-> <<>>,
     calls |-> <<>>, sent |-> <<>>, keys |-> {}]

InitSheets == [t \in Titles |-> NoSheet]

\* the callers that may run an operation at the same time
Writers == {1, 2}

\* a caller that has not called anything: where it is in its operation (pc),
\* the arguments, the local variables headers, row_idx/target_row (idx) and
\* current, what was returned, whether it started after the other caller had
\* returned (after), whether no caller had written a row yet when it read
\* the rows (early), and its place among the callers that wrote a row (rank)
Idle ==
    [pc |-> "idle", op |-> "none", row |-> <<>>, id_value |-> "", updates |-> <<>>,
     headers |-> <<>>, idx |-> 0, current |-> <<>>, ret |-> "",
     after |-> FALSE, early |-> FALSE, rank |-> 0]

NoWriters == [w \in Writers |-> Idle]

Init ==
    /\ cfg = CfgOk
    /\ sheets = InitSheets
    /\ last = NoOp
    /\ writers = NoWriters

\* the operation leaves worksheet t as r.ws and is recorded as l; a failure
\* point past the last call of the operation is no failure
Finish(t, r, l) ==
    /\ Len(r.ws.cells) <= MaxRows
    /\ l.fail <= Len(r.calls)
    /\ sheets' = [sheets EXCEPT ![t] = r.ws]
    /\ last' = [l EXCEPT !.title = t, !.ret = r.ret, !.out = r.out,
                          !.calls = r.calls, !.sent = r.sent]
    /\ UNCHANGED <<cfg, writers>>

Upsert(titles, calls, fails) ==
    \E t \in titles, call \in calls, fail \in fails :
        \E r \in {UpsertSheetRow(sheets[t], cfg, call[1], ID_RESERVA, call[2], fail)} :
            Finish(t, r, [NoOp EXCEPT !.op = "upsert", !.row = call[1],
                                      !.headers = call[2], !.fail = fail])

UpdateFields(titles, calls, fails) ==
    \E t \in titles, call \in calls, fail \in fails :
        \E r \in {UpdateSheetFieldsById(sheets[t], cfg, call[1], call[2],
                                        ID_RESERVA, fail)} :
            Finish(t, r, [NoOp EXCEPT !.op = "update", !.id_value = call[1],
                                      !.updates = call[2], !.fail = fail])

WriteTable(titles, calls, fails) ==
    \E t \in titles, call \in calls, fail \in fails :
        \E r \in {WriteSheetDf(sheets[t], cfg, call[1], call[2], fail)} :
            Finish(t, r, [NoOp EXCEPT !.op = "write", !.df = call[1],
                                      !.headers = call[2], !.fail = fail])

ReadTable(titles, hdrs, fails) ==
    \E t \in titles, hdr \in hdrs, fail \in fails :
        \E r \in {ReadSheetDf(sheets[t], cfg, hdr, fail)} :
            Finish(t, r, [NoOp EXCEPT !.op = "read", !.headers = hdr, !.fail = fail])

\* _ensure_worksheet on its own, on an open spreadsheet
Ensure(titles, hdrs, fails) ==
    \E t \in titles, hdr \in hdrs, fail \in fails :
        \E s \in {EnsureWorksheet(Start(sheets[t]), hdr.list, fail)} :
            Finish(t, Result(s, "ws", <<>>),
                   [NoOp EXCEPT !.op = "ensure", !.headers = hdr, !.fail = fail])

Next ==
    \/ Upsert({SHEET_RESERVAS_WEB}, UpsertCalls, {0})
    \/ UpdateFields({SHEET_RESERVAS_WEB}, UpdateCalls, {0})
    \/ WriteTable({SHEET_RESERVAS_WEB}, WriteCalls, {0})
    \/ ReadTable({SHEET_RESERVAS_WEB}, HeaderLists, {0})
    \/ Ensure({SHEET_RESERVAS_WEB}, HeaderLists, {0})

Spec == Init /\ [][Next]_vars

----------------------------------------------------------------------------
(* The connection factory under every configuration: the configuration is  *)
(* fixed when the process starts, the operations are the public ones, and  *)
(* any of the three calls that open the spreadsheet may fail.              *)

EnvChoices ==
    { [n \in ConfigNames |->
          CASE n = USE_GOOGLE_SHEETS            -> u
            [] n = GOOGLE_SHEETS_SPREADSHEET_ID -> i
            [] OTHER                            -> j] :
      u \in {Absent, "TRUE ", "0"},
      i \in {Absent, "", "sheet-id"},
      j \in {Absent, "{bad", JSON_EMPTY, JSON_ACCOUNT} }

SecretChoices ==
    { [n \in SecretNames |->
          CASE n = LowerName(USE_GOOGLE_SHEETS)     -> u
            [] n = gcp_service_account              -> a
            [] OTHER                                -> Absent] :
      u \in {Absent, TrueV},
      a \in {Absent, EmptyDict, DictV} }

Configs ==
    { [st |-> a, secretsOk |-> b, gspread |-> g, env |-> e, secrets |-> x] :
      a \in BOOLEAN, b \in BOOLEAN, g \in BOOLEAN,
      e \in EnvChoices, x \in SecretChoices }

\* the calls _open_spreadsheet makes
OpenCalls == <<"from_service_account_info", "authorize", "open_by_key">>

InitConn ==
    /\ cfg \in Configs
    /\ sheets = InitSheets
    /\ last = NoOp
    /\ writers = NoWriters

NextConn ==
    \/ Upsert({SHEET_RESERVAS_WEB}, {<<RowA, NoHeaders>>}, 0..Len(OpenCalls))
    \/ UpdateFields({SHEET_RESERVAS_WEB},
                    {<<" A1 ", << <<NAME, "Anna">> >> >>, <<"A1", <<>> >>},
                    0..Len(OpenCalls))
    \/ WriteTable({SHEET_RESERVAS_WEB}, {<<TableNone, NoHeaders>>}, 0..Len(OpenCalls))
    \/ ReadTable({SHEET_RESERVAS_WEB}, {NoHeaders, Headers(<<ID_RESERVA, NAME>>)},
                 0..Len(OpenCalls))

SpecConn == InitConn /\ [][NextConn]_vars

----------------------------------------------------------------------------
(* The bulk sync: one run of main per step, each remote call of either     *)
(* write may fail.                                                         *)

\* the most remote calls of one write_sheet_df that the transport may fail
MaxCalls == 10

\* enabled, but no credentials are configured
CfgNoCredentials ==
    [CfgOk EXCEPT !.env[GOOGLE_SERVICE_ACCOUNT_JSON] = Absent]

\* not enabled
CfgDisabled ==
    [CfgOk EXCEPT !.env[USE_GOOGLE_SHEETS] = Absent]

SyncConfigs == {CfgOk, CfgNoCredentials, CfgDisabled}

SyncTables == {TableEmpty, TableDup}

Sync ==
    \E hist_exists \in BOOLEAN, web_exists \in BOOLEAN,
       df_hist \in SyncTables, df_web \in SyncTables, fail \in 0..MaxCalls :
      \E fail2 \in 0..MaxCalls :
        \E r \in {Main(sheets, cfg, hist_exists, web_exists,
                       df_hist, df_web, fail, fail2)} :
            /\ Len(r.hist.cells) <= MaxRows /\ Len(r.web.cells) <= MaxRows
            \* a failure point past the last call of a write is no failure
            /\ fail <= r.n1 /\ fail2 <= Len(r.calls) - r.n1
            /\ sheets' = [t \in Titles |->
                            IF t = SHEET_RESERVAS_HIST THEN r.hist ELSE r.web]
            /\ last' = [NoOp EXCEPT !.op = "main", !.df = df_hist,
                                    !.headers = Headers(df_web.columns),
                                    !.files = <<hist_exists, web_exists>>,
                                    !.fail = fail, !.fail2 = fail2,
                                    !.ret = r.ret, !.out = r.out, !.calls = r.calls]
            /\ UNCHANGED <<cfg, writers>>

InitSync ==
    /\ cfg \in SyncConfigs
    /\ sheets = InitSheets
    /\ last = NoOp
    /\ writers = NoWriters

NextSync == Sync

SpecSync == InitSync /\ [][NextSync]_vars

----------------------------------------------------------------------------
(* write_sheet_df on tables around the batch size: every remote call of the  *)
(* write may fail.                                                           *)

\* the last remote call of a write that the transport may fail
MaxFail == 12

\* the numbers of rows of the tables written
TableSizes == {0, 1, chunk, chunk + 1, 2 * chunk + 1}

\* a table of n rows
TableOf(n) ==
    DataFrame(<<ID_RESERVA, NAME>>,
              [i \in 1..n |-> <<ToString(i), IF i = 1 THEN NoneV ELSE "Jo">>])

\* the write_sheet_df calls: <<number of rows, headers>>
WriteInputs ==
    {<<n, NoHeaders>> : n \in TableSizes} \cup {<<1, Headers(<<>>)>>}

WriteBatches ==
    \E call \in WriteInputs, fail \in 0..MaxFail :
      \E n \in {call[1]}, hdr \in {call[2]} :
        \E r \in {WriteSheetDf(sheets[SHEET_RESERVAS_WEB], cfg, TableOf(n), hdr, fail)} :
            /\ fail <= Len(r.calls)
            /\ sheets' = [sheets EXCEPT ![SHEET_RESERVAS_WEB] = r.ws]
            /\ last' = [NoOp EXCEPT !.op = "write", !.title = SHEET_RESERVAS_WEB,
                                    !.df = TableOf(n), !.headers = hdr, !.fail = fail,
                                    !.ret = r.ret, !.out = r.out,
                                    !.calls = r.calls, !.sent = r.sent]
            /\ UNCHANGED <<cfg, writers>>

InitWrite ==
    /\ cfg = CfgOk
    /\ sheets = InitSheets
    /\ last = NoOp
    /\ writers = NoWriters

NextWrite == WriteBatches

SpecWrite == InitWrite /\ [][NextWrite]_vars

----------------------------------------------------------------------------
(* Two callers on the same worksheet.  Nothing in the module locks the       *)
(* worksheet: an operation is a sequence of remote calls, and between two    *)
(* calls of one caller the other caller may make calls of its own.  Each     *)
(* step below is one remote call of upsert_sheet_row or of                   *)
(* update_sheet_fields_by_id (the three calls that open the spreadsheet are  *)
(* one step: they do not touch a worksheet), with the local computation that *)
(* follows it.  Each caller runs one operation.                              *)

RowX == << <<ID_RESERVA, "A1">>, <<NAME, "Jo">>, <<"EXTRA", "x">> >>
RowY == << <<ID_RESERVA, "A1">>, <<NAME, "Ana">>, <<"EXTRA", "y">> >>

\* the record each caller upserts, and the fields each caller updates
RaceRows    == [w \in Writers |-> IF w = 1 THEN RowX ELSE RowY]
RaceUpdates == [w \in Writers |->
                   IF w = 1 THEN << <<NAME, "Anna">> >> ELSE << <<"EXTRA", "z">> >>]

\* the worksheet when the callers start: absent, with its header row only, or
\* with the record of key A1
RaceSheets ==
    { NoSheet,
      [exists |-> TRUE, cells |-> << Keys(RowX) >>],
      [exists |-> TRUE, cells |-> << Keys(RowX), OutRow(RowX, Keys(RowX)) >>] }

Others(w) == Writers \ {w}

\* no caller has written a row yet
NobodyWrote == \A v \in Writers : writers[v].rank = 0

\* caller w goes on as r
Becomes(w, r) == writers' = [writers EXCEPT ![w] = r]

\* caller w returns ret
Returns(w, ret) == Becomes(w, [writers[w] EXCEPT !.pc = "done", !.ret = ret])

\* what follows _ensure_worksheet: upsert tests the key value and the key
\* column and goes on to scan; updateFields goes on to read the header row
AfterEnsure(r) ==
    IF r.op = "update" THEN [r EXCEPT !.pc = "head"]
    ELSE IF Strip(Str(Get(r.row, ID_RESERVA, ""))) = "" THEN [r EXCEPT !.pc = "done", !.ret = FalseV]
    ELSE IF IndexOf(r.headers, ID_RESERVA) = 0   THEN [r EXCEPT !.pc = "done", !.ret = FalseV]
    ELSE [r EXCEPT !.pc = "scan"]

\* what follows the worksheet being found or created
AfterSheet(r) ==
    IF r.op = "upsert" /\ r.headers # <<>> THEN [r EXCEPT !.pc = "first"]
    ELSE AfterEnsure(r)

\* upsert_sheet_row(SHEET_RESERVAS_WEB, row) is called
CallUpsert(w) ==
    /\ writers[w].pc = "idle"
    /\ Becomes(w, [Idle EXCEPT !.pc = "open", !.op = "upsert", !.row = RaceRows[w],
                               !.headers = Keys(RaceRows[w]),
                               !.after = \A v \in Others(w) : writers[v].pc = "done"])
    /\ UNCHANGED <<cfg, sheets, last>>

\* update_sheet_fields_by_id(SHEET_RESERVAS_WEB, "A1", updates) is called
CallUpdate(w) ==
    /\ writers[w].pc = "idle"
    /\ LET r == [Idle EXCEPT !.op = "update", !.id_value = "A1",
                             !.updates = RaceUpdates[w],
                             !.after = \A v \in Others(w) : writers[v].pc = "done"]
       IN  IF r.updates = <<>>
           THEN Becomes(w, [r EXCEPT !.pc = "done", !.ret = FalseV])
           ELSE Becomes(w, [r EXCEPT !.pc = "open"])
    /\ UNCHANGED <<cfg, sheets, last>>

\* _open_spreadsheet()
Open(w) ==
    /\ writers[w].pc = "open"
    /\ IF Unavailable(cfg) THEN Returns(w, FalseV)
       ELSE Becomes(w, [writers[w] EXCEPT !.pc = "lookup"])
    /\ UNCHANGED <<cfg, sheets, last>>

\* spreadsheet.worksheet(title)
Lookup(w) ==
    /\ writers[w].pc = "lookup"
    /\ IF sheets[SHEET_RESERVAS_WEB].exists
       THEN Becomes(w, AfterSheet(writers[w]))
       ELSE Becomes(w, [writers[w] EXCEPT !.pc = "add"])
    /\ UNCHANGED <<cfg, sheets, last>>

\* spreadsheet.add_worksheet(title): the service rejects a title that exists
Add(w) ==
    /\ writers[w].pc = "add"
    /\ IF sheets[SHEET_RESERVAS_WEB].exists
       THEN Returns(w, "raise") /\ UNCHANGED sheets
       ELSE /\ Becomes(w, AfterSheet(writers[w]))
            /\ sheets' = [sheets EXCEPT ![SHEET_RESERVAS_WEB] =
                                            [exists |-> TRUE, cells |-> <<>>]]
    /\ UNCHANGED <<cfg, last>>

\* first = ws.row_values(1)
First(w) ==
    /\ writers[w].pc = "first"
    /\ IF RowValues(sheets[SHEET_RESERVAS_WEB].cells, 1) = <<>>
       THEN Becomes(w, [writers[w] EXCEPT !.pc = "header"])
       ELSE Becomes(w, AfterEnsure(writers[w]))
    /\ UNCHANGED <<cfg, sheets, last>>

\* ws.update("A1", [headers])
Header(w) ==
    /\ writers[w].pc = "header"
    /\ sheets' = [sheets EXCEPT ![SHEET_RESERVAS_WEB].cells =
                                    UpdateRange(@, 1, writers[w].headers)]
    /\ Becomes(w, AfterEnsure(writers[w]))
    /\ UNCHANGED <<cfg, last>>

\* headers = ws.row_values(1), in update_sheet_fields_by_id
ReadHeaders(w) ==
    /\ writers[w].pc = "head"
    /\ LET headers == RowValues(sheets[SHEET_RESERVAS_WEB].cells, 1)
       IN  IF headers = <<>> \/ ~InSeq(headers, ID_RESERVA)
           THEN Returns(w, FalseV)
           ELSE Becomes(w, [writers[w] EXCEPT !.pc = "scan", !.headers = headers])
    /\ UNCHANGED <<cfg, sheets, last>>

\* ws.col_values(index of the key column) and the scan of what it returns
Scan(w) ==
    /\ writers[w].pc = "scan"
    /\ LET r      == writers[w]
           column == ColValues(sheets[SHEET_RESERVAS_WEB].cells,
                               IndexOf(r.headers, ID_RESERVA))
       IN  IF r.op = "upsert"
           THEN Becomes(w, [r EXCEPT !.pc = "write", !.early = NobodyWrote,
                                     !.idx = FindRow(column,
                                                Strip(Str(Get(r.row, ID_RESERVA, ""))))])
           ELSE LET target_row == FindRow(column, Strip(Str(r.id_value)))
                IN  IF target_row = 0 THEN Returns(w, FalseV)
                    ELSE Becomes(w, [r EXCEPT !.pc = "read", !.idx = target_row])
    /\ UNCHANGED <<cfg, sheets, last>>

\* current = ws.row_values(target_row)
Read(w) ==
    /\ writers[w].pc = "read"
    /\ Becomes(w, [writers[w] EXCEPT
                      !.pc = "write", !.early = NobodyWrote,
                      !.current = RowValues(sheets[SHEET_RESERVAS_WEB].cells,
                                            writers[w].idx)])
    /\ UNCHANGED <<cfg, sheets, last>>

\* Write with updateFields reading the row again when it writes it back
WriteReread(w) ==
    /\ writers[w].pc = "write"
    /\ LET r == writers[w]
           g == sheets[SHEET_RESERVAS_WEB].cells
       IN  /\ sheets' = [sheets EXCEPT ![SHEET_RESERVAS_WEB].cells =
                  IF r.op = "upsert"
                  THEN IF r.idx = 0
                       THEN AppendRows(g, <<OutRow(r.row, r.headers)>>)
                       ELSE UpdateRange(g, r.idx, OutRow(r.row, r.headers))
                  ELSE UpdateRange(g, r.idx,
                                   ApplyUpdates(Pad(RowValues(g, r.idx), Len(r.headers)),
                                                r.headers, r.updates))]
           /\ Becomes(w, [r EXCEPT
                             !.pc = "done", !.ret = TrueV,
                             !.rank = 1 + Cardinality({v \in Others(w) :
                                                          writers[v].rank > 0})])
    /\ UNCHANGED <<cfg, last>>

\* Write with upsert scanning the key column again when it writes
WriteRescan(w) ==
    /\ writers[w].pc = "write"
    /\ LET r   == writers[w]
           g   == sheets[SHEET_RESERVAS_WEB].cells
           idx == FindRow(ColValues(g, IndexOf(r.headers, ID_RESERVA)),
                          Strip(Str(Get(r.row, ID_RESERVA, ""))))
       IN  /\ sheets' = [sheets EXCEPT ![SHEET_RESERVAS_WEB].cells =
                  IF r.op = "upsert"
                  THEN IF idx = 0
                       THEN AppendRows(g, <<OutRow(r.row, r.headers)>>)
                       ELSE UpdateRange(g, idx, OutRow(r.row, r.headers))
                  ELSE UpdateRange(g, r.idx,
                                   ApplyUpdates(Pad(r.current, Len(r.headers)),
                                                r.headers, r.updates))]
           /\ Becomes(w, [r EXCEPT
                             !.pc = "done", !.ret = TrueV,
                             !.rank = 1 + Cardinality({v \in Others(w) :
                                                          writers[v].rank > 0})])
    /\ UNCHANGED <<cfg, last>>

\* ws.append_row(out_row) or ws.update("A<row_idx>", [out_row]) of upsert;
\* ws.update("A<target_row>", [current]) of updateFields
Write(w) ==
    /\ writers[w].pc = "write"
    /\ LET r == writers[w]
           g == sheets[SHEET_RESERVAS_WEB].cells
       IN  /\ sheets' = [sheets EXCEPT ![SHEET_RESERVAS_WEB].cells =
                  IF r.op = "upsert"
                  THEN IF r.idx = 0
                       THEN AppendRows(g, <<OutRow(r.row, r.headers)>>)
                       ELSE UpdateRange(g, r.idx, OutRow(r.row, r.headers))
                  ELSE UpdateRange(g, r.idx,
                                   ApplyUpdates(Pad(r.current, Len(r.headers)),
                                                r.headers, r.updates))]
           /\ Becomes(w, [r EXCEPT
                             !.pc = "done", !.ret = TrueV,
                             !.rank = 1 + Cardinality({v \in Others(w) :
                                                          writers[v].rank > 0})])
    /\ UNCHANGED <<cfg, last>>

InitRace ==
    /\ cfg = CfgOk
    /\ sheets \in {[InitSheets EXCEPT ![SHEET_RESERVAS_WEB] = ws] : ws \in RaceSheets}
    /\ last = NoOp
    /\ writers = NoWriters

NextRace ==
    \E w \in Writers :
        \/ CallUpsert(w)
        \/ CallUpdate(w)
        \/ Open(w)
        \/ Lookup(w)
        \/ Add(w)
        \/ First(w)
        \/ Header(w)
        \/ ReadHeaders(w)
        \/ Scan(w)
        \/ Read(w)
        \/ Write(w)

SpecRace == InitRace /\ [][NextRace]_vars

----------------------------------------------------------------------------
(* One caller that upserts with one header list: upsert_sheet_row always     *)
(* with the headers ID_RESERVA, NAME, and update_sheet_fields_by_id with     *)
(* updates that do not name the key column, on a worksheet that starts       *)
(* absent or empty.  last.keys collects the trimmed keys of the upserts that *)
(* returned true.                                                            *)

SameHeaders == Headers(<<ID_RESERVA, NAME>>)

\* the records upserted
SameHeaderRows == {RowA, RowB, RowC, RowD, RowE, RowN, RowH}

\* the updateFields calls: <<id_value, updates>>
OtherFieldUpdates ==
    { <<" A1 ", << <<NAME, "Anna">> >> >>,
      <<"A2",   << <<"EXTRA", "x">>, <<NAME, NoneV>> >> >>,
      <<"Z9",   << <<NAME, "X">> >> >> }

UpsertSame ==
    \E row \in SameHeaderRows :
        \E r \in {UpsertSheetRow(sheets[SHEET_RESERVAS_WEB], cfg, row,
                                 ID_RESERVA, SameHeaders, 0)} :
            /\ sheets' = [sheets EXCEPT ![SHEET_RESERVAS_WEB] = r.ws]
            /\ last' = [NoOp EXCEPT
                           !.op = "upsert", !.title = SHEET_RESERVAS_WEB, !.row = row,
                           !.headers = SameHeaders, !.ret = r.ret, !.calls = r.calls,
                           !.keys = IF r.ret = TrueV
                                    THEN last.keys \cup {Strip(Str(Get(row, ID_RESERVA, "")))}
                                    ELSE last.keys]
            /\ UNCHANGED <<cfg, writers>>

UpdateOther ==
    \E call \in OtherFieldUpdates :
        \E r \in {UpdateSheetFieldsById(sheets[SHEET_RESERVAS_WEB], cfg,
                                        call[1], call[2], ID_RESERVA, 0)} :
            /\ sheets' = [sheets EXCEPT ![SHEET_RESERVAS_WEB] = r.ws]
            /\ last' = [NoOp EXCEPT
                           !.op = "update", !.title = SHEET_RESERVAS_WEB,
                           !.id_value = call[1], !.updates = call[2],
                           !.ret = r.ret, !.calls = r.calls, !.keys = last.keys]
            /\ UNCHANGED <<cfg, writers>>

InitUnique ==
    /\ cfg = CfgOk
    /\ sheets \in { InitSheets,
                    [InitSheets EXCEPT ![SHEET_RESERVAS_WEB] =
                                           [exists |-> TRUE, cells |-> <<>>]] }
    /\ last = NoOp
    /\ writers = NoWriters

NextUnique == UpsertSame \/ UpdateOther

SpecUnique == InitUnique /\ [][NextUnique]_vars

----------------------------------------------------------------------------
(* Properties.  Spec runs every operation on the worksheet WEB; a step is   *)
(* described by last' (the call and what it returned), sheets (before) and  *)
(* sheets' (after).                                                         *)

WEB == SHEET_RESERVAS_WEB

\* the effective header list of an upsert
EffectiveHeaders(l) == IF l.headers.given THEN l.headers.list ELSE Keys(l.row)

\* the trimmed key value of an upsert
KeyValue(l) == Strip(Str(Get(l.row, ID_RESERVA, "")))

\* the position of the key column in the effective header list (0: not in it)
KeyPosition(l) == IndexOf(EffectiveHeaders(l), ID_RESERVA)

\* cell j of the record projected onto the effective header list
Projected(l, j) ==
    IF j >= 1 /\ j <= Len(EffectiveHeaders(l))
    THEN Str(Get(l.row, EffectiveHeaders(l)[j], ""))
    ELSE ""

\* the data rows (2..) of grid g whose cell in column j, trimmed, is key
RowsWithKey(g, j, key) == {i \in 2..Len(g) : Strip(Cell(g[i], j)) = key}

\* the columns a grid or a header list may use
Columns(g, l) == 1..Max(Width(g), Len(EffectiveHeaders(l)))

\* a successful upsert whose key is not blank and whose key column is listed
IsUpsert(l) ==
    /\ l.op = "upsert"
    /\ KeyValue(l) # ""
    /\ KeyPosition(l) # 0

\* every row of g that holds a value is the same row of h
RowsKept(g, h) == \A i \in 1..Len(g) : g[i] # <<>> => RowValues(h, i) = g[i]

\* C4: when upsert finds no data row whose key-column cell equals the record's
\* trimmed key value, it returns true and appends exactly one row, below the
\* last existing row, equal to the record projected onto the effective header
\* list (missing fields empty); the header row and every data row that
\* existed are unchanged.
C4_AppendOnMiss ==
    [][ ( /\ IsUpsert(last')
          /\ RowsWithKey(sheets[WEB].cells, KeyPosition(last'), KeyValue(last')) = {} )
        => LET g == sheets[WEB].cells
               h == sheets'[WEB].cells
           IN  /\ last'.ret = TrueV
               /\ Len(h) = Max(Len(g), 1) + 1
               /\ \A j \in Columns(h, last') : Cell(h[Len(h)], j) = Projected(last', j)
               /\ RowsKept(g, h)
               /\ g = <<>> => h[1] = EffectiveHeaders(last') ]_vars

\* C4 witness: an upsert has appended its row below an existing data row
C4_Witness ==
    /\ last.op = "upsert"
    /\ InSeq(last.calls, "append_row")
    /\ Len(sheets[WEB].cells) = 3

\* the first data row carrying the key, before the step
MatchedRow(g, l) ==
    CHOOSE i \in RowsWithKey(g, KeyPosition(l), KeyValue(l)) :
        \A k \in RowsWithKey(g, KeyPosition(l), KeyValue(l)) : i <= k

\* every row but row i is the same in g and h, and they are as long
OtherRowsKept(g, h, i) ==
    /\ Len(h) = Len(g)
    /\ \A k \in 1..Len(g) : k # i => h[k] = g[k]

\* C3: when upsert finds the key at data row i, the whole row i
\* becomes the projection of the record, nothing of the previous row i
\* survives, and every other row is unchanged.
C3_FullRowReplace ==
    [][ ( /\ IsUpsert(last')
          /\ RowsWithKey(sheets[WEB].cells, KeyPosition(last'), KeyValue(last')) # {} )
        => LET g == sheets[WEB].cells
               h == sheets'[WEB].cells
               i == MatchedRow(g, last')
           IN  /\ last'.ret = TrueV
               /\ OtherRowsKept(g, h, i)
               /\ \A j \in Columns(g, last') : Cell(h[i], j) = Projected(last', j) ]_vars

\* the same upsert called again on the worksheet the step leaves
Again(l, ws) == UpsertSheetRow(ws, cfg, l.row, ID_RESERVA, l.headers, 0)

\* the step repeats the successful upsert before it
Repeats(l, m) ==
    /\ l.op = "upsert" /\ l.ret = TrueV
    /\ m.op = "upsert" /\ m.row = l.row /\ m.headers = l.headers

\* C1 as stated: after upserting the same record twice in a row exactly one
\* data row carries the key, its fields are the projection of the record,
\* and the second call changes nothing that the first left.
C1_ExactlyOneRow ==
    [][ ( IsUpsert(last') /\ last'.ret = TrueV )
        => LET second == Again(last', sheets'[WEB])
               h      == second.ws.cells
               rows   == RowsWithKey(h, KeyPosition(last'), KeyValue(last'))
           IN  /\ second.ret = TrueV
               /\ second.ws = sheets'[WEB]
               /\ Cardinality(rows) = 1
               /\ \A i \in rows : \A j \in 1..Len(EffectiveHeaders(last')) :
                     Cell(h[i], j) = Projected(last', j) ]_vars

\* C1, amended: upserting the same record twice in a row (non-blank key, key
\* column in the effective header list) leaves as many data rows carrying the
\* key as carried it before the first call, and one when none did; the first
\* of them holds the projection of the record in the cells under the header
\* list; the second call returns true and changes nothing that the first left.
C1_Idempotent ==
    [][ /\ ( IsUpsert(last') /\ last'.ret = TrueV )
           => LET second == Again(last', sheets'[WEB])
                  h      == second.ws.cells
                  before == RowsWithKey(sheets[WEB].cells,
                                        KeyPosition(last'), KeyValue(last'))
                  rows   == RowsWithKey(h, KeyPosition(last'), KeyValue(last'))
              IN  /\ second.ret = TrueV
                  /\ second.ws = sheets'[WEB]
                  /\ Cardinality(rows) = Max(1, Cardinality(before))
                  /\ \A j \in 1..Len(EffectiveHeaders(last')) :
                        Cell(h[MatchedRow(h, last')], j) = Projected(last', j)
        /\ ( Repeats(last, last') /\ IsUpsert(last') )
           => /\ last'.ret = TrueV
              /\ sheets' = sheets ]_vars

\* C1 witness: an upsert has overwritten the first of two rows that carry its key
C1_Witness ==
    /\ IsUpsert(last)
    /\ last.ret = TrueV
    /\ InSeq(last.calls, "update")
    /\ Cardinality(RowsWithKey(sheets[WEB].cells,
                               KeyPosition(last), KeyValue(last))) = 2

\* the position of the key column in the header row the worksheet stores
StoredKeyPosition(g) == IndexOf(RowValues(g, 1), ID_RESERVA)

\* the data rows of g that carry the key an updateFields call looks for
RowsWithId(g, l) ==
    IF StoredKeyPosition(g) = 0 THEN {}
    ELSE RowsWithKey(g, StoredKeyPosition(g), Strip(Str(l.id_value)))

\* the columns of the stored header that the updates name
NamedColumns(g, l) ==
    {IndexOf(RowValues(g, 1), l.updates[k][1]) : k \in 1..Len(l.updates)}

\* C2: on a worksheet whose header holds the key column and that has a data
\* row carrying key K, updateFields(K, updates) returns true and leaves the
\* header row, every other data row, and every cell of the row it updates
\* that is not in a column the updates name, unchanged; the row may be
\* shorter or longer than the header.
C2_OtherFieldsKept ==
    [][ ( /\ last'.op = "update"
          /\ last'.updates # <<>>
          /\ RowsWithId(sheets[WEB].cells, last') # {} )
        => LET g == sheets[WEB].cells
               h == sheets'[WEB].cells
               i == CHOOSE r \in RowsWithId(g, last') :
                        \A k \in RowsWithId(g, last') : r <= k
           IN  /\ last'.ret = TrueV
               /\ OtherRowsKept(g, h, i)
               /\ \A j \in 1..Max(Width(g), Width(h)) :
                     j \notin NamedColumns(g, last') => Cell(h[i], j) = Cell(g[i], j) ]_vars

\* C2 witness: updateFields has set a cell of a row that was shorter than the
\* header
C2_Witness ==
    /\ last.op = "update"
    /\ last.ret = TrueV
    /\ last.id_value = "A2"
    /\ last.updates = << <<"EXTRA", "x">>, <<NAME, "Jo">> >>
    /\ \E i \in RowsWithId(sheets[WEB].cells, last) :
          sheets[WEB].cells[i] = <<"A2", "Jo">>

\* the calls that write to the spreadsheet
WriteKinds == {"add_worksheet", "update", "clear", "append_row", "append_rows"}

\* C5: updateFields on a worksheet that has no data row with the given key
\* returns false and leaves the worksheet as it was: it writes no cell, adds
\* no row and does not touch the header row.
C5_MissChangesNothing ==
    [][ ( /\ last'.op = "update"
          /\ RowsWithId(sheets[WEB].cells, last') = {} )
        => /\ last'.ret = FalseV
           /\ sheets'[WEB].cells = sheets[WEB].cells
           /\ sheets[WEB].exists =>
                 /\ sheets' = sheets
                 /\ \A k \in 1..Len(last'.calls) : last'.calls[k] \notin WriteKinds ]_vars

\* C5 witness: updateFields has looked for a key that no data row of a
\* populated worksheet carries
C5_Witness ==
    /\ last.op = "update"
    /\ last.id_value = "Z9"
    /\ InSeq(last.calls, "col_values")
    /\ Len(sheets[WEB].cells) = 3

\* the cell of row i of the table under the header named c ("" when the
\* table has no such column or no value there)
TableCell(df, i, c) ==
    IF InSeq(df.columns, c)
    THEN LET v == df.rows[i][IndexOf(df.columns, c)]
         IN  IF v = NoneV THEN "" ELSE v
    ELSE ""

\* C7: after writeTable returns true the worksheet holds the header row, equal
\* to the headers given (the table's columns when none are given), and below
\* it the rows of the table in their order, each under those headers and as
\* strings (no value: the empty string), and nothing else; an empty table
\* leaves the header row alone.
C7_WriteReplaces ==
    [][ ( last'.op = "write" /\ last'.ret = TrueV )
        => LET df      == last'.df
               headers == IF last'.headers.given THEN last'.headers.list ELSE df.columns
               h       == sheets'[WEB].cells
           IN  /\ h[1] = headers
               /\ Len(h) <= 1 + Len(df.rows)
               /\ \A i \in 1..Len(df.rows) : \A j \in 1..Max(Width(h), Len(headers)) :
                     Cell(RowValues(h, i + 1), j) =
                        IF j <= Len(headers) THEN TableCell(df, i, headers[j]) ELSE ""
               /\ df.rows = <<>> => h = <<headers>> ]_vars

\* C7 witness: a table of two rows has been written under headers that drop
\* one of its columns and add another
C7_Witness ==
    /\ last.op = "write"
    /\ last.ret = TrueV
    /\ last.headers = Headers(<<NAME, "EXTRA">>)
    /\ sheets[WEB].cells = << <<NAME, "EXTRA">>, <<"Jo">>, <<"Ana">> >>

\* C10: _ensure_worksheet writes the header row exactly when headers are given
\* and the first row of the worksheet is empty; a first row that holds a
\* value stays what it was, whatever headers are expected, and no other row
\* changes.
C10_HeaderWrittenOnce ==
    [][ last'.op = "ensure"
        => LET g     == sheets[WEB].cells
               h     == sheets'[WEB].cells
               first == RowValues(g, 1)
           IN  /\ InSeq(last'.calls, "update") <=>
                     (last'.headers.list # <<>> /\ first = <<>>)
               /\ first # <<>> => h = g
               /\ InSeq(last'.calls, "update") =>
                     /\ RowValues(h, 1) = last'.headers.list
                     /\ \A k \in 2..Max(Len(g), Len(h)) : RowValues(h, k) = RowValues(g, k) ]_vars

\* C10 witness: ensure was called with headers that differ from the header
\* row the worksheet holds, and wrote nothing
C10_Witness ==
    /\ last.op = "ensure"
    /\ last.headers.list # <<>>
    /\ RowValues(sheets[WEB].cells, 1) # <<>>
    /\ RowValues(sheets[WEB].cells, 1) # last.headers.list
    /\ ~InSeq(last.calls, "update")

----------------------------------------------------------------------------
(* Properties of the connection factory, under SpecConn *)

\* no source of the configuration turns the enable flag on: the environment
\* sets it to a false value, or does not set it and the secrets do not either
FlagOff(c) ==
    \/ c.env[USE_GOOGLE_SHEETS] = "0"
    \/ /\ c.env[USE_GOOGLE_SHEETS] = Absent
       /\ \/ ~c.st
          \/ ~c.secretsOk
          \/ /\ c.secrets[USE_GOOGLE_SHEETS] = Absent
             /\ c.secrets[LowerName(USE_GOOGLE_SHEETS)] = Absent

\* what the last operation returns when there is no spreadsheet
ReturnedUnavailable(l) ==
    IF l.op = "read"
    THEN l.ret = "df" /\ l.out = DataFrame(l.headers.list, <<>>)
    ELSE l.ret = FalseV

\* C6: with the enable flag false or absent, every public operation returns
\* its unavailable result (an empty table with the requested columns, or
\* false) and makes no remote call: no authentication, no worksheet lookup
\* or creation, no cell read or written.
C6_DisabledNoRemoteCall ==
    ( FlagOff(cfg) /\ last.op \in {"read", "write", "upsert", "update"} )
    => /\ last.calls = <<>>
       /\ ReturnedUnavailable(last)
       /\ sheets = InitSheets

\* C6 witness: readTable has run with the flag absent and everything else
\* configured
C6_Witness ==
    /\ FlagOff(cfg)
    /\ cfg.gspread
    /\ cfg.env[GOOGLE_SHEETS_SPREADSHEET_ID] = "sheet-id"
    /\ cfg.env[GOOGLE_SERVICE_ACCOUNT_JSON] = JSON_ACCOUNT
    /\ last.op = "read"
    /\ last.headers.given

\* the four checks of the connection factory pass
ChecksPass(c) ==
    /\ SheetsEnabled(c)
    /\ c.gspread
    /\ Truthy(SecretGet(c, GOOGLE_SHEETS_SPREADSHEET_ID, NoneV))
    /\ Truthy(ServiceAccountInfo(c))

\* the only credential material is inline JSON that does not parse
Unparseable(c) ==
    /\ ~(c.st /\ c.secretsOk /\ c.secrets[gcp_service_account] # Absent)
    /\ c.env[GOOGLE_SERVICE_ACCOUNT_JSON] = "{bad"

\* the last operation called the connection factory
Opened(l) ==
    \/ l.op \in {"read", "write", "upsert"}
    \/ l.op = "update" /\ l.updates # <<>>

\* C9: the connection factory returns Unavailable, without attempting
\* authentication, whenever remote persistence is disabled, the client
\* library is missing, no spreadsheet ID is configured or no valid credential
\* material is resolvable (inline JSON that fails to parse included);
\* authentication is attempted only when all four checks pass, and a failure
\* of it then propagates as an error, which Unavailable is not.
C9_OpenOnlyWhenConfigured ==
    Opened(last)
    => /\ ~ChecksPass(cfg) => (last.calls = <<>> /\ ReturnedUnavailable(last))
       /\ Unparseable(cfg) => (last.calls = <<>> /\ ReturnedUnavailable(last))
       /\ ChecksPass(cfg) =>
             /\ last.calls # <<>>
             /\ last.calls[1] = OpenCalls[1]
             /\ last.fail \in 1..Len(OpenCalls) =>
                   (last.ret = "raise" /\ last.calls = SubSeq(OpenCalls, 1, last.fail))
       /\ last.ret = "raise" => ChecksPass(cfg)

\* C9 witness: all four checks passed and the authorization failed
C9_Witness ==
    /\ last.op = "upsert"
    /\ last.ret = "raise"
    /\ last.calls = <<"from_service_account_info", "authorize">>

----------------------------------------------------------------------------
(* Properties of the bulk sync, under SpecSync *)

\* a precondition of the sync fails: not enabled, or a local file is missing
PreconditionFails(c, l) == ~SheetsEnabled(c) \/ ~l.files[1] \/ ~l.files[2]

\* C8: the bulk sync exits with status 0 exactly when both remote writes
\* succeeded, with status 1 on a precondition failure (and then without any
\* remote call), and with status 2 when one or both remote writes failed:
\* every failure of a remote write ends in status 2.
C8_ExitStatus ==
    last.op = "main"
    => /\ last.ret = "0" <=> last.out = <<TrueV, TrueV>>
       /\ PreconditionFails(cfg, last) => (last.ret = "1" /\ last.calls = <<>>)
       /\ ( ~PreconditionFails(cfg, last) /\ last.out # <<TrueV, TrueV>> )
             => last.ret = "2"

----------------------------------------------------------------------------
(* The remote calls of _ensure_worksheet, under Spec *)

\* the calls that read from the spreadsheet
ReadKinds == {"worksheet", "row_values", "col_values", "get_all_values"}

\* how many of the calls are of the kinds given
Count(calls, kinds) == Cardinality({k \in 1..Len(calls) : calls[k] \in kinds})

\* C11: each call of ensure makes at most one remote read (existence/header
\* check) and at most one remote write (header init), also when the worksheet
\* does not exist yet and expected headers are given.
C11_OneReadOneWrite ==
    [][ last'.op = "ensure"
        => /\ Count(last'.calls, ReadKinds) <= 1
           /\ Count(last'.calls, WriteKinds) <= 1 ]_vars

\* C11, amended: each call of ensure makes at most two remote reads (the
\* worksheet lookup, and the read of the first row, made exactly when expected
\* headers are given) and at most two remote writes (the creation of the
\* worksheet, made exactly when it does not exist, and the header init, made
\* exactly when headers are given and the first row is empty); when the
\* worksheet does not exist and headers are given it makes all four, in the
\* order lookup, creation, read of the first row, header init.
C11_TwoReadsTwoWrites ==
    [][ last'.op = "ensure"
        => LET calls  == last'.calls
               given  == last'.headers.list # <<>>
               absent == ~sheets[WEB].exists
               first  == RowValues(sheets[WEB].cells, 1)
           IN  /\ Count(calls, ReadKinds) <= 2
               /\ Count(calls, WriteKinds) <= 2
               /\ Count(calls, {"worksheet"}) = 1
               /\ Count(calls, {"row_values"}) = (IF given THEN 1 ELSE 0)
               /\ Count(calls, {"add_worksheet"}) = (IF absent THEN 1 ELSE 0)
               /\ Count(calls, {"update"}) = (IF given /\ first = <<>> THEN 1 ELSE 0)
               /\ (absent /\ given) =>
                     calls = <<"worksheet", "add_worksheet", "row_values", "update">> ]_vars

\* C11 witness: ensure has created the worksheet and written its header row
C11_Witness ==
    /\ last.op = "ensure"
    /\ last.calls = <<"worksheet", "add_worksheet", "row_values", "update">>
    /\ sheets[WEB].cells = <<last.headers.list>>

----------------------------------------------------------------------------
(* The batches of write_sheet_df, under SpecWrite *)

\* the headers a write puts in the first row
WrittenHeaders(l) == IF l.headers.given THEN l.headers.list ELSE l.df.columns

\* the rows a write has to append: the rows of the table under the headers, as
\* strings; a table without columns has none
DataRows(l) ==
    IF WrittenHeaders(l) = <<>> THEN <<>>
    ELSE [i \in 1..Len(l.df.rows) |->
            [j \in 1..Len(WrittenHeaders(l)) |-> TableCell(l.df, i, WrittenHeaders(l)[j])]]

RECURSIVE Flatten(_)
\* the batches one after the other
Flatten(batches) ==
    IF batches = <<>> THEN <<>> ELSE Head(batches) \o Flatten(Tail(batches))

\* C12: writeTable appends the data rows in consecutive batches of at most 500
\* rows per remote append call: for n rows it makes ceil(n/500) append calls,
\* no batch is empty, and the batches one after the other, in call order, are
\* the rows of the table in order, none dropped and none repeated.
C12_Batches ==
    ( last.op = "write" /\ last.ret = TrueV )
    => LET n == Len(DataRows(last))
       IN  /\ Len(last.sent) = (n + chunk - 1) \div chunk
           /\ Count(last.calls, {"append_rows"}) = Len(last.sent)
           /\ \A k \in 1..Len(last.sent) :
                 Len(last.sent[k]) >= 1 /\ Len(last.sent[k]) <= chunk
           /\ Flatten(last.sent) = DataRows(last)

\* C12 witness: a table of two full batches and one row more has been written
C12_Witness ==
    /\ last.op = "write"
    /\ last.ret = TrueV
    /\ Len(last.df.rows) = 2 * chunk + 1
    /\ Len(last.sent) = 3
    /\ Len(last.sent[3]) = 1

----------------------------------------------------------------------------
(* Keys that upsert does not take, under Spec *)

\* the data rows (from row 2 on) of h that are not the same row of g
ChangedDataRows(g, h) ==
    {i \in 2..Max(Len(g), Len(h)) : RowValues(h, i) # RowValues(g, i)}

\* C13: upsert returns false, and neither appends nor overwrites a data row,
\* when the key value of the record is empty or blank after trimming, or when
\* the key column is not in the effective header list; and no upsert creates
\* a row whose key is blank.
C13_NoBlankKey ==
    [][ last'.op = "upsert"
        => LET g == sheets[WEB].cells
               h == sheets'[WEB].cells
           IN  /\ ( KeyValue(last') = "" \/ KeyPosition(last') = 0 )
                  => /\ last'.ret = FalseV
                     /\ ChangedDataRows(g, h) = {}
                     /\ ~InSeq(last'.calls, "append_row")
                     /\ ~InSeq(last'.calls, "col_values")
               /\ \A i \in ChangedDataRows(g, h) :
                     Strip(Cell(h[i], KeyPosition(last'))) # "" ]_vars

\* C13 witness: upsert has refused a record with a key, because the header
\* list given does not hold the key column, on a worksheet that has data rows
C13_Witness ==
    /\ last.op = "upsert"
    /\ last.ret = FalseV
    /\ KeyValue(last) = "A1"
    /\ KeyPosition(last) = 0
    /\ Len(sheets[WEB].cells) >= 2

----------------------------------------------------------------------------
(* A key held by several rows, under Spec *)

\* the topmost of a set of rows
Topmost(rows) == CHOOSE i \in rows : \A k \in rows : i <= k

\* C14: when several data rows hold the same key value, upsert and
\* updateFields change only the first (topmost) of them: every later row with
\* that key keeps all its cells, and so does every other row, and the number
\* of rows is unchanged.
C14_FirstMatchOnly ==
    [][ /\ ( /\ IsUpsert(last')
             /\ Cardinality(RowsWithKey(sheets[WEB].cells,
                                        KeyPosition(last'), KeyValue(last'))) >= 2 )
           => LET g    == sheets[WEB].cells
                  h    == sheets'[WEB].cells
                  rows == RowsWithKey(g, KeyPosition(last'), KeyValue(last'))
              IN  /\ last'.ret = TrueV
                  /\ last'.calls[Len(last'.calls)] = "update"
                  /\ OtherRowsKept(g, h, Topmost(rows))
        /\ ( /\ last'.op = "update"
             /\ last'.updates # <<>>
             /\ Cardinality(RowsWithId(sheets[WEB].cells, last')) >= 2 )
           => LET g    == sheets[WEB].cells
                  h    == sheets'[WEB].cells
                  rows == RowsWithId(g, last')
              IN  /\ last'.ret = TrueV
                  /\ last'.calls[Len(last'.calls)] = "update"
                  /\ OtherRowsKept(g, h, Topmost(rows)) ]_vars

\* C14 witness: updateFields has changed the first of two rows that hold its
\* key, and the second is what it was
C14_Witness ==
    /\ last.op = "update"
    /\ last.ret = TrueV
    /\ sheets[WEB].cells = << <<ID_RESERVA, NAME>>, <<"A1", "Anna">>, <<"A1", "Ana">> >>

----------------------------------------------------------------------------
(* The lookup of upsert, under Spec *)

\* C15: the lookup of upsert scans the column at the position the key column
\* has in the effective (caller-side) header list, from the second row on,
\* and takes the first cell that equals the key value, both trimmed; the
\* header row is never the match, even when its cell equals the key value;
\* the position is not taken from the header row the worksheet stores, so a
\* key that the worksheet holds is found only in the column at that position.
C15_CallerSideLookup ==
    [][ IsUpsert(last')
        => LET g    == sheets[WEB].cells
               h    == sheets'[WEB].cells
               rows == RowsWithKey(g, KeyPosition(last'), KeyValue(last'))
           IN  /\ InSeq(last'.calls, "update") /\ last'.calls[Len(last'.calls)] = "update"
                     <=> rows # {}
               /\ last'.calls[Len(last'.calls)] = "append_row" <=> rows = {}
               /\ rows # {} => ChangedDataRows(g, h) \subseteq {Topmost(rows)}
               /\ rows = {} => Len(h) = Max(Len(g), 1) + 1
               /\ RowValues(g, 1) # <<>> => RowValues(h, 1) = RowValues(g, 1) ]_vars

\* C15 witness: the key of the record is the cell of the header row, and the
\* record was appended below it
C15_Witness ==
    /\ IsUpsert(last)
    /\ KeyValue(last) = ID_RESERVA
    /\ Strip(Cell(RowValues(sheets[WEB].cells, 1), KeyPosition(last))) = KeyValue(last)
    /\ InSeq(last.calls, "append_row")
    /\ Len(sheets[WEB].cells) = 3

\* the key is held under the key column of the stored header, which is at
\* another position than in the header list of the call, and was not found
KeyMissedByPosition ==
    /\ IsUpsert(last)
    /\ StoredKeyPosition(sheets[WEB].cells) # 0
    /\ StoredKeyPosition(sheets[WEB].cells) # KeyPosition(last)
    /\ InSeq(last.calls, "append_row")
    /\ \E i \in 2..(Len(sheets[WEB].cells) - 1) :
          Strip(Cell(sheets[WEB].cells[i], StoredKeyPosition(sheets[WEB].cells)))
             = KeyValue(last)

----------------------------------------------------------------------------
(* The table read_sheet_df returns, under Spec *)

\* row i of the used range of grid g: its cells over all the columns in use
UsedRow(g, i) == [j \in 1..Width(g) |-> Cell(g[i], j)]

\* C16: readTable with requested headers H returns a table whose columns are
\* exactly H, in that order: columns of the stored header that are not in H
\* are dropped, columns of H that the stored header lacks hold the empty
\* string, and a worksheet with no rows or with a header row only gives an
\* empty table with the columns H; without requested headers the columns are
\* the stored header row.
C16_ReadColumns ==
    [][ last'.op = "read"
        => LET h      == sheets'[WEB].cells
               H      == last'.headers.list
               t      == last'.out
               stored == RowValues(h, 1)
           IN  /\ last'.ret = "df"
               /\ Len(t.rows) = Max(Len(h), 1) - 1
               /\ last'.headers.given
                  => /\ t.columns = H
                     /\ \A i \in 1..Len(t.rows) : \A j \in 1..Len(H) :
                           t.rows[i][j] = IF InSeq(stored, H[j])
                                          THEN Cell(h[i + 1], IndexOf(stored, H[j]))
                                          ELSE ""
               /\ ~last'.headers.given
                  => /\ t.columns = (IF h = <<>> THEN <<>> ELSE UsedRow(h, 1))
                     /\ \A i \in 1..Len(t.rows) : t.rows[i] = UsedRow(h, i + 1) ]_vars

\* C16 witness: a worksheet with the header ID_RESERVA, NAME and two data rows
\* was read with the headers NAME, EXTRA
C16_Witness ==
    /\ last.op = "read"
    /\ last.headers = Headers(<<NAME, "EXTRA">>)
    /\ RowValues(sheets[WEB].cells, 1) = <<ID_RESERVA, NAME>>
    /\ Len(last.out.rows) = 2
    /\ last.out.rows[1] = <<"Jo", "">>

----------------------------------------------------------------------------
(* Two callers on the same key, under SpecRace *)

\* every caller has run the operation op and it returned true
BothReturnedTrue(op) ==
    \A w \in Writers :
        writers[w].op = op /\ writers[w].pc = "done" /\ writers[w].ret = TrueV

\* every caller read the rows before any caller wrote one
BothReadFirst == \A w \in Writers : writers[w].early

\* the caller that wrote as number n
Ranked(n) == CHOOSE w \in Writers : writers[w].rank = n

\* the cell of the row of key A1 under the field caller w updates
UpdatedCell(w) ==
    Cell(sheets[WEB].cells[writers[w].idx],
         IndexOf(RowValues(sheets[WEB].cells, 1), writers[w].updates[1][1]))

\* what that cell was when caller v read the row
CellRead(v, w) ==
    Cell(writers[v].current,
         IndexOf(RowValues(sheets[WEB].cells, 1), writers[w].updates[1][1]))

\* C17: updateFields is a read-modify-write that is not atomic: when two
\* callers run it on the same key at the same time, changing different
\* fields, and both read the row before either writes it back, then after
\* both have returned true the worksheet holds the field change of the later
\* writer only, and the change of the earlier writer is lost; when the later
\* writer read the row after the earlier one wrote it, both changes are there.
C17_LostUpdate ==
    BothReturnedTrue("update")
    => LET earlier == Ranked(1)
           later   == Ranked(2)
       IN  /\ UpdatedCell(later) = writers[later].updates[1][2]
           /\ BothReadFirst
              => /\ UpdatedCell(earlier) # writers[earlier].updates[1][2]
                 /\ UpdatedCell(earlier) = CellRead(later, earlier)
           /\ ~BothReadFirst
              => UpdatedCell(earlier) = writers[earlier].updates[1][2]

\* C17 witness: both callers have updated key A1 and returned true, caller 2
\* wrote last, and the NAME that caller 1 set is gone
C17_Witness ==
    /\ BothReturnedTrue("update")
    /\ BothReadFirst
    /\ writers[2].rank = 2
    /\ sheets[WEB].cells = << Keys(RowX), <<"A1", "Jo", "z">> >>

\* the data rows that hold key A1
RowsOfA1 == RowsWithKey(sheets[WEB].cells, 1, "A1")

\* C18: the scan and the write of upsert are not atomic: when two callers
\* upsert records with the same key, which is not in the worksheet yet, and
\* both scan before either appends, the worksheet holds two data rows with
\* that key after both have returned; when one caller starts after the other
\* has returned (one writer at a time) no state with two such rows is
\* reached.
C18_DuplicateOnRace ==
    /\ ( /\ BothReturnedTrue("upsert")
         /\ \A w \in Writers : writers[w].idx = 0 )
       => /\ BothReadFirst
          /\ Cardinality(RowsOfA1) = 2
    /\ ( \E w \in Writers : writers[w].after ) => Cardinality(RowsOfA1) <= 1
    /\ Cardinality(RowsOfA1) >= 2
       => /\ BothReadFirst
          /\ \A w \in Writers : writers[w].op = "upsert" /\ writers[w].idx = 0

\* C18 witness: both callers have upserted key A1 and the worksheet holds it
\* twice
C18_Witness ==
    /\ BothReturnedTrue("upsert")
    /\ sheets[WEB].cells =
          << Keys(RowX), OutRow(RowX, Keys(RowX)), OutRow(RowY, Keys(RowY)) >>

----------------------------------------------------------------------------
(* Keys under one caller and one header list, under SpecUnique *)

\* the trimmed key of data row i
KeyOfRow(g, i) == Strip(Cell(g[i], 1))

\* C19: with one caller, starting from an empty or absent worksheet, after any
\* sequence of upsert calls that all use the same header list, which holds
\* the key column, and of updateFields calls whose updates do not name the
\* key column, every trimmed key value is in at most one data row, and there
\* are as many data rows as distinct keys upserted with success.
C19_UniqueKeys ==
    LET g == sheets[WEB].cells
    IN  /\ \A i, j \in 2..Len(g) : i # j => KeyOfRow(g, i) # KeyOfRow(g, j)
        /\ Max(Len(g), 1) - 1 = Cardinality(last.keys)
        /\ {KeyOfRow(g, i) : i \in 2..Len(g)} = last.keys

\* C19 witness: four keys have been upserted, one of them twice, and a field
\* of one of the rows has been updated
C19_Witness ==
    /\ last.op = "update"
    /\ last.ret = TrueV
    /\ last.keys = {"A1", "A2", "None", ID_RESERVA}
    /\ Len(sheets[WEB].cells) = 5
    /\ \E i \in 2..5 : sheets[WEB].cells[i] = <<"A1", "Anna">>

----------------------------------------------------------------------------
(* The order of the remote steps of write_sheet_df and what a failure       *)
(* leaves, under SpecWrite *)

\* the number of the clear call among the calls of a write (0: not made)
ClearAt(l) == IndexOf(l.calls, "clear")

\* the worksheet that holds the header row of a write and, below it, the
\* first m of its batches
HeaderAndBatches(l, m) ==
    LET rows == Flatten(SubSeq(l.sent, 1, m))
    IN  TrimGrid(<<WrittenHeaders(l)>> \o [k \in 1..Len(rows) |-> Trim(rows[k])])

\* C20: writeTable makes its remote steps in the order clear, header write,
\* append batches in row order, and rolls nothing back: when a remote step
\* fails after the clear the error propagates (the call does not return
\* false) and the worksheet holds nothing, or the header row and the rows of
\* the batches appended before the failure, whole batches that are a prefix
\* of the new rows; what the worksheet held before is gone.
C20_OrderAndNoRollback ==
    ( last.op = "write" /\ ClearAt(last) # 0 )
    => LET c      == ClearAt(last)
           calls  == last.calls
           g      == sheets[WEB].cells
           failed == last.fail > c
       IN  /\ \A k \in 1..(c - 1) : calls[k] \notin {"clear", "append_rows"}
           /\ Len(calls) > c => calls[c + 1] = "update"
           /\ \A k \in (c + 2)..Len(calls) : calls[k] = "append_rows"
           /\ Len(last.sent) = Max(Len(calls) - c - 1, 0)
           /\ LET rows == Flatten(last.sent)
              IN  /\ Len(rows) <= Len(DataRows(last))
                  /\ rows = SubSeq(DataRows(last), 1, Len(rows))
           /\ failed
              => /\ last.ret = "raise"
                 /\ last.fail = c + 1 => g = <<>>
                 /\ last.fail > c + 1 => g = HeaderAndBatches(last, Len(last.sent) - 1)
           /\ (last.fail # c /\ ~failed)
              => /\ last.ret = TrueV
                 /\ g = HeaderAndBatches(last, Len(last.sent))

\* C20 witness: the third append of a table of two full batches and one row
\* has failed, on a worksheet that now holds the header and the two batches
C20_Witness ==
    /\ last.op = "write"
    /\ last.ret = "raise"
    /\ Len(last.df.rows) = 2 * chunk + 1
    /\ Len(last.sent) = 3
    /\ Len(sheets[WEB].cells) = 1 + 2 * chunk

====
